---- MODULE Spec2Model ----
(***************************************************************************)
(* GF2Device (gf2device.cpp): the control layer of the GF2 function        *)
(* generator.  An AD9834 waveform generator sits on SPI channel 0, an      *)
(* AD5310 DAC on SPI channel 1, and five control lines on GPIO.2..GPIO.6   *)
(* of a CP2130 USB-to-SPI bridge.  Every public operation of GF2Device is  *)
(* one action; the Bridge calls it issues are recorded, in order, in       *)
(* "trace".                                                                *)
(***************************************************************************)
EXTENDS Integers, Sequences, FiniteSets, TLC

VARIABLES
    gpio,     \* [2..6 -> BOOLEAN]: the levels of GPIO.2 .. GPIO.6
    cs,       \* [0..1 -> BOOLEAN]: whether the chip-select of a channel is asserted
    ad9834,   \* the registers of the AD9834 (channel 0)
    ad5310,   \* the 16-bit input register of the AD5310 (channel 1)
    errcnt,   \* the caller's error count on return (0 on entry)
    errstr,   \* the messages appended to the caller's error string by the call
    trace,    \* the Bridge calls and delays issued by the last operation, in order
    op,       \* the last operation: its name and arguments
    result,   \* what the last operation returned: <<>> or <<value>>
    lastSet,  \* history: per control line, the value last given to its setter
    bridge,   \* "reliable": no Bridge call fails; "faulty": calls may fail
    sample    \* the value the callers pass, where a behaviour follows one value

vars ==
    <<gpio, cs, ad9834, ad5310, errcnt, errstr, trace, op, result, lastSet, bridge, sample>>

----------------------------------------------------------------------------
(* Bounds of the model *)

\* a faulty Bridge fails at most this many separate calls of one operation, or
\* every call from some call on (the device is disconnected)
MaxFaults == 1

\* how many values the callers pass on each side of a value of interest (a
\* limit, a rounding tie, a fold of the phase)
SampleSpan == 4

----------------------------------------------------------------------------
(* Program constants *)

EPOUT == 1
FREQ0 == 64
FREQ1 == 128
PHASE0 == 192
PHASE1 == 224
AQUANTUM == 1023
FQUANTUM == 268435456
MCLK == 80000
PQUANTUM == 4096
AMPLITUDE_MIN == 0
AMPLITUDE_MAX == 8
FREQUENCY_MIN == 0
FREQUENCY_MAX == 40000
FSEL0 == FALSE
FSEL1 == TRUE
PSEL0 == FALSE
PSEL1 == TRUE

\* the GPIO pins of the five control lines
RST == 2
SLP == 3
FSEL == 4
PSEL == 5
CMPEN == 6
Pins == {RST, SLP, FSEL, PSEL, CMPEN}
Channels == {0, 1}

\* the messages setAmplitude() and setFrequency() append on a rejected value
AmplitudeMsg == "In setAmplitude(): Amplitude must be between 0 and 8.\n"
FrequencyMsg == "In setFrequency(): Frequency must be between 0 and 40000.\n"

----------------------------------------------------------------------------
(* Integer helpers: the bit operations of the source on unsigned values *)

RECURSIVE BitAnd(_, _)
BitAnd(a, b) ==
    IF a = 0 \/ b = 0 THEN 0
    ELSE (IF a % 2 = 1 /\ b % 2 = 1 THEN 1 ELSE 0) + 2 * BitAnd(a \div 2, b \div 2)

RECURSIVE BitOr(_, _)
BitOr(a, b) ==
    IF a = 0 THEN b
    ELSE IF b = 0 THEN a
    ELSE (IF a % 2 = 1 \/ b % 2 = 1 THEN 1 ELSE 0) + 2 * BitOr(a \div 2, b \div 2)

RECURSIVE Pow2(_)
Pow2(n) == IF n = 0 THEN 1 ELSE 2 * Pow2(n - 1)

ShiftRight(a, n) == a \div Pow2(n)

\* static_cast<uint8_t> and static_cast<uint16_t> of a non-negative integer
U8(a) == a % 256
U16(a) == a % 65536

----------------------------------------------------------------------------
(* The peripherals: what a frame does to the chip whose chip-select is     *)
(* asserted.  The AD9834 takes 16-bit words, most significant byte first,  *)
(* and routes each by its register tag; a frequency register is loaded by  *)
(* two consecutive words of the same tag, the 14 low bits first.  The      *)
(* AD5310 latches the first 16-bit word of a frame.                        *)

Word(data, i) == data[2 * i - 1] * 256 + data[2 * i]

Ad9834Reset ==
    [control |-> 0, freq0 |-> <<0, 0>>, freq1 |-> <<0, 0>>, phase0 |-> 0, phase1 |-> 0]

\* loads the word w into the chip; half is the half (1 low, 2 high) the next
\* frequency word of each register loads
Ad9834Word(c, w) ==
    LET tag == w \div 16384
        r == c.regs
        h == c.half
    IN  CASE tag = 0 -> [c EXCEPT !.regs.control = w]
          [] tag = 1 -> [regs |-> [r EXCEPT !.freq0[h[1]] = w % 16384],
                         half |-> [h EXCEPT ![1] = 3 - h[1]]]
          [] tag = 2 -> [regs |-> [r EXCEPT !.freq1[h[2]] = w % 16384],
                         half |-> [h EXCEPT ![2] = 3 - h[2]]]
          [] OTHER   -> IF (w \div 8192) % 2 = 0
                        THEN [c EXCEPT !.regs.phase0 = w % 4096]
                        ELSE [c EXCEPT !.regs.phase1 = w % 4096]

RECURSIVE Ad9834Words(_, _, _)
Ad9834Words(c, data, i) ==
    IF 2 * i > Len(data) THEN c
    ELSE Ad9834Words(Ad9834Word(c, Word(data, i)), data, i + 1)

Ad9834Frame(regs, data) == Ad9834Words([regs |-> regs, half |-> <<1, 1>>], data, 1).regs

Ad5310Frame(reg, data) == IF Len(data) >= 2 THEN Word(data, 1) ELSE reg

----------------------------------------------------------------------------
(* The Bridge (CP2130).  A call works on the record s that an operation    *)
(* threads through its statements: the hardware, the caller's errcnt and   *)
(* errstr, the calls issued so far, and the inputs that decide which       *)
(* calls fail (s.flt, by call number) and what a failed read returns       *)
(* (s.junk).  A failed call changes nothing but errcnt and errstr.         *)

CallFails(s) == (s.ncalls + 1) \in s.flt

\* records the call e with its outcome; a failed call increments errcnt and
\* appends a message to errstr
Issue(s, e) ==
    LET ok == ~CallFails(s)
    IN  [s EXCEPT !.ncalls = @ + 1,
                  !.trace = Append(@, [e EXCEPT !.ok = ok]),
                  !.errcnt = IF ok THEN @ ELSE @ + 1,
                  !.errstr = IF ok THEN @ ELSE Append(@, e.call)]

setGPIO(s, pin, value) ==
    LET t == Issue(s, [call |-> "setGPIO", pin |-> pin, value |-> value, ok |-> TRUE])
    IN  IF CallFails(s) THEN t ELSE [t EXCEPT !.gpio[pin] = value]

\* returns the record after the call (s) and the value read (val)
getGPIO(s, pin) ==
    LET val == IF CallFails(s) THEN s.junk ELSE s.gpio[pin]
    IN  [s |-> Issue(s, [call |-> "getGPIO", pin |-> pin, val |-> val, ok |-> TRUE]),
         val |-> val]

\* asserts the chip-select of the channel and deasserts every other one
selectCS(s, channel) ==
    LET t == Issue(s, [call |-> "selectCS", channel |-> channel, ok |-> TRUE])
    IN  IF CallFails(s) THEN t ELSE [t EXCEPT !.cs = [c \in Channels |-> c = channel]]

\* deasserts the chip-select of the channel
disableCS(s, channel) ==
    LET t == Issue(s, [call |-> "disableCS", channel |-> channel, ok |-> TRUE])
    IN  IF CallFails(s) THEN t ELSE [t EXCEPT !.cs[channel] = FALSE]

\* sends the bytes to the chip whose chip-select is asserted
spiWrite(s, data, endpoint) ==
    LET t == Issue(s, [call |-> "spiWrite", data |-> data, endpoint |-> endpoint,
                       ok |-> TRUE])
    IN  IF CallFails(s) THEN t
        ELSE [t EXCEPT !.ad9834 = IF s.cs[0] THEN Ad9834Frame(@, data) ELSE @,
                       !.ad5310 = IF s.cs[1] THEN Ad5310Frame(@, data) ELSE @]

\* the blocking sleep of the calling thread; not a Bridge call, never fails
usleep(s, us) == [s EXCEPT !.trace = Append(@, [call |-> "usleep", us |-> us])]

----------------------------------------------------------------------------
(* Single-precision arithmetic.  A float is the record [m, e] of the value *)
(* m * 2^e, |m| < 2^24, kept with m odd (or m = 0, e = 0) so that equal    *)
(* values are equal records.  Operations round to nearest, ties to even,   *)
(* as IEEE 754 binary32 does; the values met are far from its exponent     *)
(* limits.                                                                 *)

Two24 == Pow2(24)

RECURSIVE Canon(_, _)
Canon(m, e) ==
    IF m = 0 THEN [m |-> 0, e |-> 0]
    ELSE IF m % 2 = 0 THEN Canon(m \div 2, e + 1)
    ELSE [m |-> m, e |-> e]

\* the float of an integer of at most 24 significant bits
Float(n) == Canon(n, 0)

\* the float n / 2^k
Dyadic(n, k) == Canon(n, 0 - k)

\* how many low bits M has beyond 24
RECURSIVE Excess(_)
Excess(M) == IF M < Two24 THEN 0 ELSE 1 + Excess(M \div 2)

\* the float nearest to (M + f) * 2^e, M >= 0, where 0 <= f < 1 and sticky
\* tells whether f > 0; M has at least 25 bits when sticky
FlRound(M, e, sticky) ==
    LET s == Excess(M)
        t == M \div Pow2(s)
        rem == M % Pow2(s)
        half == Pow2(s) \div 2
        up == s >= 1 /\ (rem > half \/ (rem = half /\ (sticky \/ t % 2 = 1)))
    IN  Canon(t + (IF up THEN 1 ELSE 0), e + s)

\* x * c in float, x >= 0, c an odd integer below 1024: the product m * c is
\* formed in two parts, 64 * H + L, so that no number exceeds 2^31
MulOdd(x, c) ==
    LET hi == (x.m \div 64) * c
        lo == (x.m % 64) * c
        H == hi + (lo \div 64)
        L == lo % 64
    IN  IF H < 2 * Two24 THEN FlRound(64 * H + L, x.e, FALSE)
        ELSE FlRound(H, x.e + 6, L # 0)

\* x * c in float, x >= 0, c a positive integer (converted to float, exactly)
FlMul(x, c) ==
    LET f == Float(c)
        p == MulOdd(x, f.m)
    IN  Canon(p.m, p.e + f.e)

\* the quotient bits of r / d after q, until 25 bits are there or none is left
RECURSIVE DivBits(_, _, _, _)
DivBits(q, r, d, k) ==
    IF r = 0 \/ q >= Two24 THEN [q |-> q, r |-> r, k |-> k]
    ELSE DivBits(2 * q + ((2 * r) \div d), (2 * r) % d, d, k + 1)

\* x / d in float, x >= 0, d a positive integer below 2^24 (converted to float)
FlDiv(x, d) ==
    LET b == DivBits(x.m \div d, x.m % d, d, 0)
    IN  FlRound(b.q, x.e - b.k, b.r # 0)

\* x < y
FlNonNegLess(x, y) ==
    LET e == IF x.e < y.e THEN x.e ELSE y.e
        k == IF e < 0 THEN 0 - e ELSE 0
        ix == IF x.e >= 0 THEN x.m * Pow2(x.e) ELSE x.m \div Pow2(0 - x.e)
        iy == IF y.e >= 0 THEN y.m * Pow2(y.e) ELSE y.m \div Pow2(0 - y.e)
        fx == IF x.e >= 0 THEN 0 ELSE (x.m % Pow2(0 - x.e)) * Pow2(k + x.e)
        fy == IF y.e >= 0 THEN 0 ELSE (y.m % Pow2(0 - y.e)) * Pow2(k + y.e)
    IN  ix < iy \/ (ix = iy /\ fx < fy)

Neg(x) == [x EXCEPT !.m = 0 - @]

FlLess(x, y) ==
    IF x.m < 0 THEN (y.m >= 0 \/ FlNonNegLess(Neg(y), Neg(x)))
    ELSE (y.m >= 0 /\ FlNonNegLess(x, y))

\* static_cast to an unsigned integer of x + 0.5, x >= 0: the sum is formed in
\* double precision, where it is exact, and the cast drops the fraction
HalfAddedCast(x) ==
    IF x.e >= 0 THEN x.m * Pow2(x.e)
    ELSE IF 0 - x.e > 25 THEN 0
    ELSE (x.m + Pow2(0 - x.e - 1)) \div Pow2(0 - x.e)

\* std::round(x), x >= 0: the nearest integer, halfway cases away from zero
FlRoundToInt(x) ==
    IF x.e >= 0 THEN x
    ELSE IF 0 - x.e > 25 THEN Float(0)
    ELSE LET d == Pow2(0 - x.e)
             whole == x.m \div d
             part == x.m % d
         IN  Float(IF 2 * part >= d THEN whole + 1 ELSE whole)

----------------------------------------------------------------------------
(* The quantization of the source.  amplitude, frequency and phase are     *)
(* floats; the products and quotients are formed in single precision, the  *)
(* sum with 0.5 in double precision.                                       *)

\* static_cast<uint16_t>(amplitude * AQUANTUM / AMPLITUDE_MAX + 0.5)
amplitudeCode(amplitude) ==
    U16(HalfAddedCast(FlDiv(FlMul(amplitude, AQUANTUM), AMPLITUDE_MAX)))

\* the frequency code held in 16 bits, as the amplitude and phase codes are
frequencyCode16(frequency) ==
    U16(HalfAddedCast(FlDiv(FlMul(frequency, FQUANTUM), MCLK)))

\* static_cast<uint32_t>(frequency * FQUANTUM / MCLK + 0.5)
frequencyCode(frequency) ==
    HalfAddedCast(FlDiv(FlMul(frequency, FQUANTUM), MCLK))

\* std::fmod(phase, 360): exact, the remainder has the sign of the dividend
fmod360(phase) ==
    LET a == IF phase.m < 0 THEN 0 - phase.m ELSE phase.m
        r == IF phase.e >= 0
             THEN Canon((a * Pow2(phase.e)) % 360, 0)
             ELSE Canon(a % (360 * Pow2(0 - phase.e)), phase.e)
    IN  IF phase.m < 0 THEN Neg(r) ELSE r

\* phaseMod + (phaseMod < 0 ? 360 : 0), a float sum
foldedPhase(phaseMod) ==
    IF phaseMod.m >= 0 THEN phaseMod
    ELSE IF phaseMod.e >= 0 THEN Float(360 + phaseMod.m * Pow2(phaseMod.e))
    ELSE FlRound(360 * Pow2(0 - phaseMod.e) + phaseMod.m, phaseMod.e, FALSE)

\* static_cast<uint16_t>((phaseMod + (phaseMod < 0 ? 360 : 0)) * PQUANTUM / 360 + 0.5)
phaseCode(phase) ==
    U16(HalfAddedCast(FlDiv(FlMul(foldedPhase(fmod360(phase)), PQUANTUM), 360)))

\* std::round(amplitude * AQUANTUM / AMPLITUDE_MAX) * AMPLITUDE_MAX / AQUANTUM
expectedAmplitude(amplitude) ==
    FlDiv(FlMul(FlRoundToInt(FlDiv(FlMul(amplitude, AQUANTUM), AMPLITUDE_MAX)),
                AMPLITUDE_MAX),
          AQUANTUM)

\* std::round(frequency * FQUANTUM / MCLK) * MCLK / FQUANTUM
expectedFrequency(frequency) ==
    FlDiv(FlMul(FlRoundToInt(FlDiv(FlMul(frequency, FQUANTUM), MCLK)), MCLK), FQUANTUM)

\* std::round((phaseMod + (phaseMod < 0 ? 360 : 0)) * PQUANTUM / 360) * 360 / PQUANTUM
expectedPhase(phase) ==
    FlDiv(FlMul(FlRoundToInt(FlDiv(FlMul(foldedPhase(fmod360(phase)), PQUANTUM), 360)),
                360),
          PQUANTUM)

----------------------------------------------------------------------------
(* The operations of GF2Device, statement by statement *)

\* notes the value given to the setter of a line (history only)
Given(s, line, value) == [s EXCEPT !.lastSet[line] = <<value>>]

setWaveGenEnabled(s, value) == setGPIO(Given(s, RST, value), RST, ~value)

setDACEnabled(s, value) == setGPIO(Given(s, SLP, value), SLP, ~value)

setClockEnabled(s, value) == setGPIO(Given(s, CMPEN, value), CMPEN, ~value)

selectFrequency(s, fsel) == setGPIO(Given(s, FSEL, fsel), FSEL, fsel)

selectPhase(s, psel) == setGPIO(Given(s, PSEL, psel), PSEL, psel)

Negated(r) == [r EXCEPT !.val = ~@]

isClockEnabled(s) == Negated(getGPIO(s, CMPEN))

\* isDACEnabled() that returns the level of the SLP pin as read
isDACEnabledNotInverted(s) == getGPIO(s, SLP)

isDACEnabled(s) == Negated(getGPIO(s, SLP))

isWaveGenEnabled(s) == Negated(getGPIO(s, RST))

getFrequencySelection(s) == getGPIO(s, FSEL)

getPhaseSelection(s) == getGPIO(s, PSEL)

setupAD9834 == <<34, 0>>

clearAD9834 == <<FREQ0, 0, FREQ0, 0, FREQ1, 0, FREQ1, 0, PHASE0, 0, PHASE1, 0>>

clearAD5310 == <<0, 0>>

\* clear() that leaves channel 1 selected after zeroing the DAC
clearWithoutDeselect(s) ==
    LET s1 == setWaveGenEnabled(s, TRUE)
        s2 == selectCS(s1, 0)
        s3 == spiWrite(s2, setupAD9834, EPOUT)
        s4 == usleep(s3, 100)
        s5 == setWaveGenEnabled(s4, FALSE)
        s6 == spiWrite(s5, clearAD9834, EPOUT)
        s7 == usleep(s6, 100)
        s8 == selectCS(s7, 1)
        s9 == spiWrite(s8, clearAD5310, EPOUT)
        s10 == usleep(s9, 100)
        s12 == setDACEnabled(s10, TRUE)
        s13 == selectFrequency(s12, FSEL0)
        s14 == selectPhase(s13, PSEL0)
        s15 == setClockEnabled(s14, TRUE)
    IN  setWaveGenEnabled(s15, TRUE)

\* clear() that gives up when the control word cannot be written
clearAbortingOnError(s) ==
    LET s1 == setWaveGenEnabled(s, TRUE)
        s2 == selectCS(s1, 0)
        s3 == spiWrite(s2, setupAD9834, EPOUT)
        s4 == usleep(s3, 100)
        s5 == setWaveGenEnabled(s4, FALSE)
        s6 == spiWrite(s5, clearAD9834, EPOUT)
        s7 == usleep(s6, 100)
        s8 == selectCS(s7, 1)
        s9 == spiWrite(s8, clearAD5310, EPOUT)
        s10 == usleep(s9, 100)
        s11 == disableCS(s10, 1)
        s12 == setDACEnabled(s11, TRUE)
        s13 == selectFrequency(s12, FSEL0)
        s14 == selectPhase(s13, PSEL0)
        s15 == setClockEnabled(s14, TRUE)
    IN  IF s3.errcnt > s2.errcnt THEN s3 ELSE setWaveGenEnabled(s15, TRUE)

\* clear() that does not switch the chip-select to channel 1
clearWithoutSelect1(s) ==
    LET s1 == setWaveGenEnabled(s, TRUE)
        s2 == selectCS(s1, 0)
        s3 == spiWrite(s2, setupAD9834, EPOUT)
        s4 == usleep(s3, 100)
        s5 == setWaveGenEnabled(s4, FALSE)
        s6 == spiWrite(s5, clearAD9834, EPOUT)
        s7 == usleep(s6, 100)
        s9 == spiWrite(s7, clearAD5310, EPOUT)
        s10 == usleep(s9, 100)
        s11 == disableCS(s10, 1)
        s12 == setDACEnabled(s11, TRUE)
        s13 == selectFrequency(s12, FSEL0)
        s14 == selectPhase(s13, PSEL0)
        s15 == setClockEnabled(s14, TRUE)
    IN  setWaveGenEnabled(s15, TRUE)

\* clear() with the zeroing write moved before the reset
clearZeroedBeforeReset(s) ==
    LET s1 == setWaveGenEnabled(s, TRUE)
        s2 == selectCS(s1, 0)
        s3 == spiWrite(s2, setupAD9834, EPOUT)
        s4 == usleep(s3, 100)
        s5 == spiWrite(s4, clearAD9834, EPOUT)
        s6 == setWaveGenEnabled(s5, FALSE)
        s7 == usleep(s6, 100)
        s8 == selectCS(s7, 1)
        s9 == spiWrite(s8, clearAD5310, EPOUT)
        s10 == usleep(s9, 100)
        s11 == disableCS(s10, 1)
        s12 == setDACEnabled(s11, TRUE)
        s13 == selectFrequency(s12, FSEL0)
        s14 == selectPhase(s13, PSEL0)
        s15 == setClockEnabled(s14, TRUE)
    IN  setWaveGenEnabled(s15, TRUE)

\* clear() that leaves the frequency and phase selections as they are
clearWithoutSelections(s) ==
    LET s1 == setWaveGenEnabled(s, TRUE)
        s2 == selectCS(s1, 0)
        s3 == spiWrite(s2, setupAD9834, EPOUT)
        s4 == usleep(s3, 100)
        s5 == setWaveGenEnabled(s4, FALSE)
        s6 == spiWrite(s5, clearAD9834, EPOUT)
        s7 == usleep(s6, 100)
        s8 == selectCS(s7, 1)
        s9 == spiWrite(s8, clearAD5310, EPOUT)
        s10 == usleep(s9, 100)
        s11 == disableCS(s10, 1)
        s12 == setDACEnabled(s11, TRUE)
        s15 == setClockEnabled(s12, TRUE)
    IN  setWaveGenEnabled(s15, TRUE)

clear(s) ==
    LET s1 == setWaveGenEnabled(s, TRUE)
        s2 == selectCS(s1, 0)
        s3 == spiWrite(s2, setupAD9834, EPOUT)
        s4 == usleep(s3, 100)
        s5 == setWaveGenEnabled(s4, FALSE)
        s6 == spiWrite(s5, clearAD9834, EPOUT)
        s7 == usleep(s6, 100)
        s8 == selectCS(s7, 1)
        s9 == spiWrite(s8, clearAD5310, EPOUT)
        s10 == usleep(s9, 100)
        s11 == disableCS(s10, 1)
        s12 == setDACEnabled(s11, TRUE)
        s13 == selectFrequency(s12, FSEL0)
        s14 == selectPhase(s13, PSEL0)
        s15 == setClockEnabled(s14, TRUE)
    IN  setWaveGenEnabled(s15, TRUE)

\* the frame of setAmplitude() with the low bits of the code left in place
amplitudeFrameUnshifted(amplitude) ==
    LET code == amplitudeCode(amplitude)
    IN  <<U8(BitAnd(15, ShiftRight(code, 6))), U8(code)>>

\* the frame of setAmplitude()
amplitudeFrame(amplitude) ==
    LET code == amplitudeCode(amplitude)
    IN  <<U8(BitAnd(15, ShiftRight(code, 6))), U8(code * 4)>>

\* setAmplitude() that returns with its chip-select still asserted
setAmplitudeWithoutDeselect(s, amplitude) ==
    IF FlLess(amplitude, Float(AMPLITUDE_MIN)) \/ FlLess(Float(AMPLITUDE_MAX), amplitude)
    THEN [s EXCEPT !.errcnt = @ + 1, !.errstr = Append(@, AmplitudeMsg)]
    ELSE LET s1 == selectCS(s, 1)
             s2 == spiWrite(s1, amplitudeFrame(amplitude), EPOUT)
         IN  usleep(s2, 100)

setAmplitude(s, amplitude) ==
    IF FlLess(amplitude, Float(AMPLITUDE_MIN)) \/ FlLess(Float(AMPLITUDE_MAX), amplitude)
    THEN [s EXCEPT !.errcnt = @ + 1, !.errstr = Append(@, AmplitudeMsg)]
    ELSE LET s1 == selectCS(s, 1)
             s2 == spiWrite(s1, amplitudeFrame(amplitude), EPOUT)
             s3 == usleep(s2, 100)
         IN  disableCS(s3, 1)

\* the frame of setFrequency() with the high half of the code sent first
frequencyFrameHighFirst(fsel, frequency) ==
    LET code == frequencyCode(frequency)
        reg == IF fsel THEN FREQ1 ELSE FREQ0
    IN  <<U8(BitOr(reg, BitAnd(63, ShiftRight(code, 22)))),
          U8(ShiftRight(code, 14)),
          U8(BitOr(reg, BitAnd(63, ShiftRight(code, 8)))),
          U8(code)>>

\* the frame of setFrequency() with the register tag on the low half only
frequencyFrameUntaggedHigh(fsel, frequency) ==
    LET code == frequencyCode(frequency)
        reg == IF fsel THEN FREQ1 ELSE FREQ0
    IN  <<U8(BitOr(reg, BitAnd(63, ShiftRight(code, 8)))),
          U8(code),
          U8(BitAnd(63, ShiftRight(code, 22))),
          U8(ShiftRight(code, 14))>>

\* the frame of setFrequency() with a mask that lets bit 14 of the code
\* through in the first byte
frequencyFrameWideMask(fsel, frequency) ==
    LET code == frequencyCode(frequency)
        reg == IF fsel THEN FREQ1 ELSE FREQ0
    IN  <<U8(BitOr(reg, BitAnd(127, ShiftRight(code, 8)))),
          U8(code),
          U8(BitOr(reg, BitAnd(63, ShiftRight(code, 22)))),
          U8(ShiftRight(code, 14))>>

\* the frame of setFrequency()
frequencyFrame(fsel, frequency) ==
    LET code == frequencyCode(frequency)
        reg == IF fsel THEN FREQ1 ELSE FREQ0
    IN  <<U8(BitOr(reg, BitAnd(63, ShiftRight(code, 8)))),
          U8(code),
          U8(BitOr(reg, BitAnd(63, ShiftRight(code, 22)))),
          U8(ShiftRight(code, 14))>>

\* setFrequency() that checks the lower limit only
setFrequencyNoUpperLimit(s, fsel, frequency) ==
    IF FlLess(frequency, Float(FREQUENCY_MIN))
    THEN [s EXCEPT !.errcnt = @ + 1, !.errstr = Append(@, FrequencyMsg)]
    ELSE LET s1 == selectCS(s, 0)
             s2 == spiWrite(s1, frequencyFrame(fsel, frequency), EPOUT)
             s3 == usleep(s2, 100)
         IN  disableCS(s3, 0)

\* setFrequency() that also makes the slot it writes the active one
setFrequencySelecting(s, fsel, frequency) ==
    IF FlLess(frequency, Float(FREQUENCY_MIN)) \/ FlLess(Float(FREQUENCY_MAX), frequency)
    THEN [s EXCEPT !.errcnt = @ + 1, !.errstr = Append(@, FrequencyMsg)]
    ELSE LET s1 == selectCS(s, 0)
             s2 == spiWrite(s1, frequencyFrame(fsel, frequency), EPOUT)
             s3 == usleep(s2, 100)
             s4 == disableCS(s3, 0)
         IN  selectFrequency(s4, fsel)

setFrequency(s, fsel, frequency) ==
    IF FlLess(frequency, Float(FREQUENCY_MIN)) \/ FlLess(Float(FREQUENCY_MAX), frequency)
    THEN [s EXCEPT !.errcnt = @ + 1, !.errstr = Append(@, FrequencyMsg)]
    ELSE LET s1 == selectCS(s, 0)
             s2 == spiWrite(s1, frequencyFrame(fsel, frequency), EPOUT)
             s3 == usleep(s2, 100)
         IN  disableCS(s3, 0)

\* the frame of setPhase() with a mask that lets bit 12 of the code through
phaseFrameWideMask(psel, phase) ==
    LET code == phaseCode(phase)
        reg == IF psel THEN PHASE1 ELSE PHASE0
    IN  <<U8(BitOr(reg, BitAnd(31, ShiftRight(code, 8)))), U8(code)>>

\* the frame of setPhase()
phaseFrame(psel, phase) ==
    LET code == phaseCode(phase)
        reg == IF psel THEN PHASE1 ELSE PHASE0
    IN  <<U8(BitOr(reg, BitAnd(15, ShiftRight(code, 8)))), U8(code)>>

\* setPhase() that returns as soon as the write reports an error
setPhaseAbortingOnError(s, psel, phase) ==
    LET s1 == selectCS(s, 0)
        s2 == spiWrite(s1, phaseFrame(psel, phase), EPOUT)
        s3 == usleep(s2, 100)
    IN  IF s2.errcnt > s1.errcnt THEN s2 ELSE disableCS(s3, 0)

setPhase(s, psel, phase) ==
    LET s1 == selectCS(s, 0)
        s2 == spiWrite(s1, phaseFrame(psel, phase), EPOUT)
        s3 == usleep(s2, 100)
    IN  disableCS(s3, 0)

sineWaveFrame == <<34, 0>>

setSineWave(s) ==
    LET s1 == selectCS(s, 0)
        s2 == spiWrite(s1, sineWaveFrame, EPOUT)
        s3 == usleep(s2, 100)
    IN  disableCS(s3, 0)

triangleWaveFrame == <<34, 2>>

setTriangleWave(s) ==
    LET s1 == selectCS(s, 0)
        s2 == spiWrite(s1, triangleWaveFrame, EPOUT)
        s3 == usleep(s2, 100)
    IN  disableCS(s3, 0)

\* start() that enables the generator without resetting it first
startWithoutPulse(s) == setWaveGenEnabled(s, TRUE)

\* start() with its two statements swapped
startEnablingFirst(s) ==
    LET s1 == setWaveGenEnabled(s, TRUE)
    IN  setWaveGenEnabled(s1, FALSE)

start(s) ==
    LET s1 == setWaveGenEnabled(s, FALSE)
    IN  setWaveGenEnabled(s1, TRUE)

\* stop() that switches an enabled clock off and does not switch it on again
stopLeavingClockOff(s) ==
    LET s1 == setWaveGenEnabled(s, FALSE)
        r == isClockEnabled(s1)
    IN  IF r.val
        THEN LET s2 == setClockEnabled(r.s, FALSE)
             IN  usleep(s2, 10000)
        ELSE r.s

\* stop() that refreshes the clock whatever it read
stopAlwaysRefreshing(s) ==
    LET s1 == setWaveGenEnabled(s, FALSE)
        r == isClockEnabled(s1)
        s2 == setClockEnabled(r.s, FALSE)
        s3 == usleep(s2, 10000)
    IN  setClockEnabled(s3, TRUE)

stop(s) ==
    LET s1 == setWaveGenEnabled(s, FALSE)
        r == isClockEnabled(s1)
    IN  IF r.val
        THEN LET s2 == setClockEnabled(r.s, FALSE)
                 s3 == usleep(s2, 10000)
             IN  setClockEnabled(s3, TRUE)
        ELSE r.s

----------------------------------------------------------------------------
(* The state machine: one action per public operation *)

\* the amplitudes (Vpp) studied one by one: sixteenths of a volt over the
\* range, floats just below 4 Vpp whose product with AQUANTUM is rounded, and
\* values outside the limits
AmplitudeSamples ==
    {Dyadic(n, 4) : n \in 0 .. 16 * AMPLITUDE_MAX}
    \cup {Dyadic(Two24 - j, 22) : j \in 1 .. SampleSpan}
    \cup {Dyadic(1023 * j, 13) : j \in 1 .. SampleSpan}
    \cup {Float(0 - 1), Dyadic(0 - 1, 20), Dyadic(8 * Pow2(20) + 1, 20), Float(9)}

\* the frequencies (kHz) studied one by one: whole kHz at both ends of the
\* range and every 5 MHz, floats next to 40 MHz, multiples of a 2^22-th of a
\* kHz around the rounding ties of the lowest codes, and values outside the
\* limits
FrequencySamples ==
    {Float(n) : n \in 0 .. SampleSpan}
    \cup {Float(FREQUENCY_MAX - n) : n \in 0 .. SampleSpan}
    \cup {Float(5000 * n) : n \in 0 .. 8}
    \cup {Dyadic(FREQUENCY_MAX * 256 - j, 8) : j \in 1 .. SampleSpan}
    \cup {Dyadic(625 * j + d, 22) : j \in 1 .. SampleSpan, d \in {0 - 1, 0, 1}}
    \cup {Float(0 - 1), Dyadic(0 - 1, 22), Dyadic(FREQUENCY_MAX * 256 + 1, 8),
          Float(FREQUENCY_MAX + 1)}

\* the phases (degrees) studied one by one: multiples of 45 degrees over four
\* turns, multiples of half a quantum next to 0 and next to 360, floats on
\* both sides of 0 and of 360
PhaseSamples ==
    {Float(45 * n) : n \in (0 - 16) .. 16}
    \cup {Dyadic(45 * j, 10) : j \in 1 .. 2 * SampleSpan}
    \cup {Dyadic(45 * (8192 - j), 10) : j \in 1 .. 2 * SampleSpan}
    \cup {Dyadic(45 * (8192 + j), 10) : j \in 1 .. 2 * SampleSpan}
    \cup {Dyadic(0 - 45 * j, 10) : j \in 1 .. 2 * SampleSpan}
    \cup {Dyadic(0 - j, 20) : j \in 1 .. SampleSpan}
    \cup {Dyadic(360 * Pow2(14) - j, 14) : j \in 1 .. SampleSpan}
    \cup {Dyadic(360 * Pow2(14) + j, 14) : j \in 1 .. SampleSpan}

Samples ==
    {[kind |-> "amplitude", value |-> v] : v \in AmplitudeSamples}
    \cup {[kind |-> "frequency", value |-> v] : v \in FrequencySamples}
    \cup {[kind |-> "phase", value |-> v] : v \in PhaseSamples}

\* no value is followed: the callers pass any of a few values
NoSample == [kind |-> "none", value |-> Float(0)]

\* the values the callers of the model pass: the value followed, if one is;
\* else the values given over a reliable Bridge, zero over a faulty one
Inputs(kind, values) ==
    IF sample.kind = "none"
    THEN (IF bridge = "reliable" THEN values ELSE {Float(0)})
    ELSE (IF sample.kind = kind THEN {sample.value} ELSE {})

FrequencyInputs ==
    Inputs("frequency",
           {Float(0 - 1), Float(0), Float(FREQUENCY_MAX), Float(FREQUENCY_MAX + 1)})
AmplitudeInputs ==
    Inputs("amplitude",
           {Float(0 - 1), Float(0), Float(AMPLITUDE_MAX), Float(AMPLITUDE_MAX + 1)})
PhaseInputs == Inputs("phase", {Float(0 - 90), Float(0)})

\* the sets of Bridge calls, by call number, that may fail in an operation that
\* issues at most n calls
FaultSets(n) ==
    IF bridge = "reliable" THEN {{}}
    ELSE {F \in SUBSET (1 .. n) : Cardinality(F) <= MaxFaults}
         \cup {k .. n : k \in 1 .. n}

\* what a failed read may return
Junk == IF bridge = "reliable" THEN {FALSE} ELSE BOOLEAN

\* the record an operation starts from
Entry(flt, junk) ==
    [gpio |-> gpio, cs |-> cs, ad9834 |-> ad9834, ad5310 |-> ad5310,
     errcnt |-> 0, errstr |-> <<>>, trace |-> <<>>, lastSet |-> lastSet,
     ncalls |-> 0, flt |-> flt, junk |-> junk]

\* the operation name(args) returns val, leaving the record s
Return(name, args, s, val) ==
    /\ gpio' = s.gpio
    /\ cs' = s.cs
    /\ ad9834' = s.ad9834
    /\ ad5310' = s.ad5310
    /\ errcnt' = s.errcnt
    /\ errstr' = s.errstr
    /\ trace' = s.trace
    /\ op' = [name |-> name, args |-> args]
    /\ result' = val
    /\ lastSet' = s.lastSet
    /\ UNCHANGED <<bridge, sample>>

Query(name, r) == Return(name, <<>>, r.s, <<r.val>>)

Clear == \E flt \in FaultSets(13) : Return("clear", <<>>, clear(Entry(flt, FALSE)), <<>>)

Start == \E flt \in FaultSets(2) : Return("start", <<>>, start(Entry(flt, FALSE)), <<>>)

Stop ==
    \E flt \in FaultSets(4), junk \in Junk :
        Return("stop", <<>>, stop(Entry(flt, junk)), <<>>)

SetWaveGenEnabled ==
    \E value \in BOOLEAN, flt \in FaultSets(1) :
        Return("setWaveGenEnabled", <<value>>,
               setWaveGenEnabled(Entry(flt, FALSE), value), <<>>)

SetDACEnabled ==
    \E value \in BOOLEAN, flt \in FaultSets(1) :
        Return("setDACEnabled", <<value>>, setDACEnabled(Entry(flt, FALSE), value), <<>>)

SetClockEnabled ==
    \E value \in BOOLEAN, flt \in FaultSets(1) :
        Return("setClockEnabled", <<value>>,
               setClockEnabled(Entry(flt, FALSE), value), <<>>)

SelectFrequency ==
    \E fsel \in BOOLEAN, flt \in FaultSets(1) :
        Return("selectFrequency", <<fsel>>, selectFrequency(Entry(flt, FALSE), fsel), <<>>)

SelectPhase ==
    \E psel \in BOOLEAN, flt \in FaultSets(1) :
        Return("selectPhase", <<psel>>, selectPhase(Entry(flt, FALSE), psel), <<>>)

IsWaveGenEnabled ==
    \E flt \in FaultSets(1), junk \in Junk :
        Query("isWaveGenEnabled", isWaveGenEnabled(Entry(flt, junk)))

IsDACEnabled ==
    \E flt \in FaultSets(1), junk \in Junk :
        Query("isDACEnabled", isDACEnabled(Entry(flt, junk)))

IsClockEnabled ==
    \E flt \in FaultSets(1), junk \in Junk :
        Query("isClockEnabled", isClockEnabled(Entry(flt, junk)))

GetFrequencySelection ==
    \E flt \in FaultSets(1), junk \in Junk :
        Query("getFrequencySelection", getFrequencySelection(Entry(flt, junk)))

GetPhaseSelection ==
    \E flt \in FaultSets(1), junk \in Junk :
        Query("getPhaseSelection", getPhaseSelection(Entry(flt, junk)))

SetAmplitude ==
    \E amplitude \in AmplitudeInputs, flt \in FaultSets(3) :
        Return("setAmplitude", <<amplitude>>,
               setAmplitude(Entry(flt, FALSE), amplitude), <<>>)

SetFrequency ==
    \E fsel \in BOOLEAN, frequency \in FrequencyInputs, flt \in FaultSets(3) :
        Return("setFrequency", <<fsel, frequency>>,
               setFrequency(Entry(flt, FALSE), fsel, frequency), <<>>)

SetPhase ==
    \E psel \in BOOLEAN, phase \in PhaseInputs, flt \in FaultSets(3) :
        Return("setPhase", <<psel, phase>>, setPhase(Entry(flt, FALSE), psel, phase), <<>>)

SetSineWave ==
    \E flt \in FaultSets(3) : Return("setSineWave", <<>>, setSineWave(Entry(flt, FALSE)), <<>>)

SetTriangleWave ==
    \E flt \in FaultSets(3) :
        Return("setTriangleWave", <<>>, setTriangleWave(Entry(flt, FALSE)), <<>>)

\* the static helpers, which touch nothing; they are valid for values within
\* the limits of the setters only
InRange(value, min, max) == ~FlLess(value, Float(min)) /\ ~FlLess(Float(max), value)

ExpectedAmplitude ==
    \E amplitude \in AmplitudeInputs :
        /\ InRange(amplitude, AMPLITUDE_MIN, AMPLITUDE_MAX)
        /\ Return("expectedAmplitude", <<amplitude>>, Entry({}, FALSE),
                  <<expectedAmplitude(amplitude)>>)

ExpectedFrequency ==
    \E frequency \in FrequencyInputs :
        /\ InRange(frequency, FREQUENCY_MIN, FREQUENCY_MAX)
        /\ Return("expectedFrequency", <<frequency>>, Entry({}, FALSE),
                  <<expectedFrequency(frequency)>>)

ExpectedPhase ==
    \E phase \in PhaseInputs :
        Return("expectedPhase", <<phase>>, Entry({}, FALSE), <<expectedPhase(phase)>>)

\* the levels the control lines may have at power-up
AnyLevels == [Pins -> BOOLEAN]
LowLevels == {[p \in Pins |-> FALSE]}

\* the session after construction: the lines have their power-up levels, no
\* chip-select is asserted, the registers are zero, nothing was called
InitWith(b, levels, samples) ==
    /\ gpio \in levels
    /\ cs = [c \in Channels |-> FALSE]
    /\ ad9834 = Ad9834Reset
    /\ ad5310 = 0
    /\ errcnt = 0
    /\ errstr = <<>>
    /\ trace = <<>>
    /\ op = [name |-> "none", args |-> <<>>]
    /\ result = <<>>
    /\ lastSet = [p \in Pins |-> <<>>]
    /\ bridge = b
    /\ sample \in samples

Init == InitWith("reliable", AnyLevels, {NoSample})

InitLow == InitWith("reliable", LowLevels, {NoSample})

InitFaulty == InitWith("faulty", LowLevels, {NoSample})

InitSampled == InitWith("reliable", LowLevels, Samples)

Next ==
    \/ Clear
    \/ Start
    \/ Stop
    \/ SetWaveGenEnabled
    \/ SetDACEnabled
    \/ SetClockEnabled
    \/ SelectFrequency
    \/ SelectPhase
    \/ IsWaveGenEnabled
    \/ IsDACEnabled
    \/ IsClockEnabled
    \/ GetFrequencySelection
    \/ GetPhaseSelection
    \/ SetAmplitude
    \/ SetFrequency
    \/ SetPhase
    \/ SetSineWave
    \/ SetTriangleWave
    \/ ExpectedAmplitude
    \/ ExpectedFrequency
    \/ ExpectedPhase

\* the control lines: their setters and queries, and the composite protocols
NextLines ==
    \/ Clear
    \/ Start
    \/ Stop
    \/ SetWaveGenEnabled
    \/ SetDACEnabled
    \/ SetClockEnabled
    \/ SelectFrequency
    \/ SelectPhase
    \/ IsWaveGenEnabled
    \/ IsDACEnabled
    \/ IsClockEnabled
    \/ GetFrequencySelection
    \/ GetPhaseSelection

\* the register writes, with the selection of the active registers
NextRegs ==
    \/ Clear
    \/ SelectFrequency
    \/ SelectPhase
    \/ SetAmplitude
    \/ SetFrequency
    \/ SetPhase
    \/ SetSineWave
    \/ SetTriangleWave

\* the composite protocols, and a register write on each channel
NextFaulty ==
    \/ Clear
    \/ Start
    \/ Stop
    \/ SetAmplitude
    \/ SetFrequency

\* the register writes
NextWrites ==
    \/ SetAmplitude
    \/ SetFrequency
    \/ SetPhase
    \/ SetSineWave
    \/ SetTriangleWave

\* clear() and stop() among register writes, from any levels of the
\* control lines
NextComposite ==
    \/ Clear
    \/ Stop
    \/ SetAmplitude
    \/ SetFrequency
    \/ SetPhase
    \/ SetTriangleWave

\* the control lines and the composite protocols over a reliable Bridge, from any
\* power-up levels
\* the operations that quantize a value
NextSampled ==
    \/ SetAmplitude
    \/ SetFrequency
    \/ SetPhase
    \/ ExpectedAmplitude
    \/ ExpectedFrequency
    \/ ExpectedPhase

Spec == Init /\ [][NextLines]_vars

\* the register writes over a reliable Bridge
SpecRegs == InitLow /\ [][NextRegs]_vars

\* the composite protocols over a faulty Bridge
SpecFaulty == InitFaulty /\ [][NextFaulty]_vars

\* the register writes over a faulty Bridge
SpecFaultyRegs == InitFaulty /\ [][NextWrites]_vars

SpecSampled == InitSampled /\ [][NextSampled]_vars

SpecComposite == Init /\ [][NextComposite]_vars

----------------------------------------------------------------------------
(* Reading a trace *)

NoChannel == 0 - 1

\* the channel whose chip-select the calls tr[1..i] leave selected, as issued
RECURSIVE SelectedAfter(_, _)
SelectedAfter(tr, i) ==
    IF i = 0 THEN NoChannel
    ELSE IF tr[i].call = "selectCS" THEN tr[i].channel
    ELSE IF tr[i].call = "disableCS" /\ SelectedAfter(tr, i - 1) = tr[i].channel
         THEN NoChannel
    ELSE SelectedAfter(tr, i - 1)

IsCsCall(e) == e.call \in {"selectCS", "disableCS"}

PinStep(pin, level) == [call |-> "setGPIO", pin |-> pin, value |-> level]
ReadStep(pin) == [call |-> "getGPIO", pin |-> pin]
WriteStep(channel, data) ==
    [call |-> "spiWrite", channel |-> channel, data |-> data, endpoint |-> 1]
DelayStep(us) == [call |-> "usleep", us |-> us]
SelectStep(channel) == [call |-> "selectCS", channel |-> channel]
DeselectStep(channel) == [call |-> "disableCS", channel |-> channel]

\* event i of tr without its outcome, a write with the channel selected for it
StepOf(tr, i) ==
    LET e == tr[i]
    IN  CASE e.call = "setGPIO" -> PinStep(e.pin, e.value)
          [] e.call = "getGPIO" -> ReadStep(e.pin)
          [] e.call = "spiWrite" ->
                [call |-> "spiWrite", channel |-> SelectedAfter(tr, i - 1),
                 data |-> e.data, endpoint |-> e.endpoint]
          [] e.call = "usleep" -> DelayStep(e.us)
          [] e.call = "selectCS" -> SelectStep(e.channel)
          [] OTHER -> DeselectStep(e.channel)

\* the steps of tr, in order
Steps(tr) == [i \in 1 .. Len(tr) |-> StepOf(tr, i)]

\* the steps of tr that are no chip-select calls, in order
RECURSIVE StepsFrom(_, _)
StepsFrom(tr, i) ==
    IF i > Len(tr) THEN <<>>
    ELSE (IF IsCsCall(tr[i]) THEN <<>> ELSE <<StepOf(tr, i)>>) \o StepsFrom(tr, i + 1)

BusSteps(tr) == StepsFrom(tr, 1)

----------------------------------------------------------------------------
(* C1: clear() issues, in this order and nothing reordered: wave-gen       *)
(* enable (reset pin low), the 2-byte control word on channel 0, 100 us,   *)
(* wave-gen disable (reset pin high), the 12-byte write on channel 0 that  *)
(* zeroes FREQ0, FREQ1, PHASE0 and PHASE1, 100 us, the 2-byte zero write   *)
(* on channel 1, 100 us, DAC enable, frequency register 0, phase register  *)
(* 0, clock enable, wave-gen enable.                                       *)

ClearProtocol ==
    << PinStep(2, FALSE),
       WriteStep(0, <<34, 0>>),
       DelayStep(100),
       PinStep(2, TRUE),
       WriteStep(0, <<64, 0, 64, 0, 128, 0, 128, 0, 192, 0, 224, 0>>),
       DelayStep(100),
       WriteStep(1, <<0, 0>>),
       DelayStep(100),
       PinStep(3, FALSE),
       PinStep(4, FALSE),
       PinStep(5, FALSE),
       PinStep(6, FALSE),
       PinStep(2, FALSE) >>

\* C1: the steps of every clear(), its chip-select calls apart, are the
\* sequence ClearProtocol, each write on the channel selected for it
C1_ClearOrder == op.name = "clear" => BusSteps(trace) = ClearProtocol

\* a clear() has returned, from a state with the clock disabled before it
C1_Witness ==
    /\ op.name = "clear"
    /\ Len(trace) = 16
    /\ ad9834.control = 8704
    /\ \A p \in Pins : ~gpio[p]

----------------------------------------------------------------------------
(* C2: setFrequency with a frequency below 0 or above 40000 kHz, and       *)
(* setAmplitude with an amplitude below 0 or above 8 Vpp, fail with a      *)
(* validation error (the error count, 0 on entry, is 1 on return, and one  *)
(* message is appended) and make no Bridge call: no chip-select change,    *)
(* no SPI write, no GPIO change, so the peripherals are unchanged.         *)

\* the hardware: control lines, chip-selects and peripheral registers
hardware == <<gpio, cs, ad9834, ad5310>>

FrequencyRejected(o) ==
    o.name = "setFrequency"
    /\ (FlLess(o.args[2], Float(0)) \/ FlLess(Float(40000), o.args[2]))

AmplitudeRejected(o) ==
    o.name = "setAmplitude"
    /\ (FlLess(o.args[1], Float(0)) \/ FlLess(Float(8), o.args[1]))

\* C2: a setFrequency() or setAmplitude() with a value outside its limits
\* returns with one error counted and one message, having made no Bridge call
\* and changed nothing of the hardware
C2_RejectedBeforeBus ==
    [][ (FrequencyRejected(op') \/ AmplitudeRejected(op'))
        => /\ errcnt' = 1
           /\ Len(errstr') = 1
           /\ errstr'[1] = (IF op'.name = "setFrequency"
                            THEN "In setFrequency(): Frequency must be between 0 and 40000.\n"
                            ELSE "In setAmplitude(): Amplitude must be between 0 and 8.\n")
           /\ trace' = <<>>
           /\ hardware' = hardware ]_vars

\* a frequency above the limit was rejected with registers loaded and FREQ1 active
C2_Witness ==
    /\ FrequencyRejected(op)
    /\ op.args[2] = Float(40001)
    /\ errcnt = 1
    /\ ad9834.freq0 # <<0, 0>>
    /\ ad5310 # 0
    /\ gpio[4]

----------------------------------------------------------------------------
(* C3: stop() first disables the wave generator; then, if the clock is     *)
(* read as enabled, it disables the clock, waits 10 ms and re-enables the  *)
(* clock, in that order; if the clock is read as disabled, it issues no    *)
(* write at all to the clock line.                                         *)

\* the clock read of a stop() found the clock enabled (GPIO.6 low)
ReadAsEnabled(tr) == Len(tr) >= 2 /\ tr[2].call = "getGPIO" /\ ~tr[2].val

\* C3: the steps of every stop() are reset pin high, clock read and, only if
\* the read found the clock enabled, clock off, 10 ms, clock on
C3_StopOrder ==
    op.name = "stop"
    => IF ReadAsEnabled(trace)
       THEN Steps(trace) = << PinStep(2, TRUE), ReadStep(6),
                              PinStep(6, TRUE), DelayStep(10000), PinStep(6, FALSE) >>
       ELSE Steps(trace) = << PinStep(2, TRUE), ReadStep(6) >>

\* a stop() has refreshed a clock that was enabled
C3_Witness ==
    /\ op.name = "stop"
    /\ ReadAsEnabled(trace)
    /\ Len(trace) = 5
    /\ gpio[2]
    /\ ~gpio[6]

----------------------------------------------------------------------------
(* C4: start() drives the wave generator disabled and then enabled, in     *)
(* that order, whatever the state before the call: every start() makes a   *)
(* reset pulse (reset pin high, then low) and ends with the wave           *)
(* generator enabled.                                                      *)

\* C4: every start(), from any state, writes the reset pin high and then low,
\* ends with the wave generator enabled and changes no other line
C4_StartPulse ==
    [][ op'.name = "start"
        => /\ Steps(trace') = << PinStep(2, TRUE), PinStep(2, FALSE) >>
           /\ \A i \in 1 .. 2 : trace'[i].ok
           /\ ~gpio'[2]
           /\ \A p \in Pins \ {2} : gpio'[p] = gpio[p] ]_vars

\* a start() has returned, with the DAC and the clock disabled
C4_Witness ==
    /\ op.name = "start"
    /\ Len(trace) = 2
    /\ ~gpio[2]
    /\ gpio[3]
    /\ gpio[6]

----------------------------------------------------------------------------
(* C5: each of setAmplitude, setFrequency, setPhase, setSineWave and       *)
(* setTriangleWave, on accepted input, performs exactly: select the        *)
(* chip-select of its channel (1 for the amplitude, 0 for the others),     *)
(* one SPI write to OUT endpoint 0x01, a 100 us delay, deselect of that    *)
(* chip-select; the delay and the deselect happen whether or not the       *)
(* write reported an error.                                                *)

RegisterWrites ==
    {"setAmplitude", "setFrequency", "setPhase", "setSineWave", "setTriangleWave"}

ChannelOf(name) == IF name = "setAmplitude" THEN 1 ELSE 0

Accepted(o) == ~FrequencyRejected(o) /\ ~AmplitudeRejected(o)

\* tr is one complete transaction on the channel: select, one write, 100 us, deselect
IsTransaction(tr, channel) ==
    /\ Len(tr) = 4
    /\ Steps(tr)[1] = SelectStep(channel)
    /\ Steps(tr)[2].call = "spiWrite"
    /\ Steps(tr)[2].channel = channel
    /\ Steps(tr)[2].endpoint = 1
    /\ Steps(tr)[3] = DelayStep(100)
    /\ Steps(tr)[4] = DeselectStep(channel)

\* C5: every accepted register write is one transaction on its own channel:
\* select, a single write to endpoint 1, a 100 us delay, deselect, whichever of
\* these calls fail
C5_WriteTransaction ==
    (op.name \in RegisterWrites /\ Accepted(op)) => IsTransaction(trace, ChannelOf(op.name))

\* a setPhase() whose write failed has waited and released the chip-select
C5_Witness ==
    /\ op.name = "setPhase"
    /\ Len(trace) = 4
    /\ trace[1].ok
    /\ ~trace[2].ok
    /\ trace[4].ok
    /\ ~cs[0]
    /\ errcnt = 1

----------------------------------------------------------------------------
(* C6: the bus writes of clear() and the Channel Transaction Sequencer     *)
(* contract (select, write, 100 us, deselect).                             *)

Writes(tr) == {i \in 1 .. Len(tr) : tr[i].call = "spiWrite"}

\* the chip-select calls of tr, in order
RECURSIVE CsStepsFrom(_, _)
CsStepsFrom(tr, i) ==
    IF i > Len(tr) THEN <<>>
    ELSE (IF IsCsCall(tr[i]) THEN <<StepOf(tr, i)>> ELSE <<>>) \o CsStepsFrom(tr, i + 1)

\* write i of tr is a whole transaction: the select of a channel right before
\* it, and right after it a 100 us delay and the deselect of that channel
WholeTransaction(tr, i) ==
    /\ i > 1
    /\ i + 2 <= Len(tr)
    /\ \E c \in Channels :
          /\ Steps(tr)[i - 1] = SelectStep(c)
          /\ Steps(tr)[i + 1] = DelayStep(100)
          /\ Steps(tr)[i + 2] = DeselectStep(c)

\* the channel of the chip a frame of clear() is meant for
ClearTarget(data) == IF data = <<0, 0>> THEN 1 ELSE 0

\* C6 as claimed: each of the three SPI writes of clear() is preceded by a
\* select of its chip-select and followed by a 100 us delay and then a deselect
\* of that chip-select, before any other Bridge call
C6_Original ==
    op.name = "clear" => \A i \in Writes(trace) : WholeTransaction(trace, i)

\* C6, amended: each of the three SPI writes of clear() is issued while the
\* chip-select of its own channel is the one selected, and is followed by a
\* 100 us delay before the next Bridge call.  Chip-select 0 is selected once,
\* before the control word, and stays selected across the reset-pin change and
\* the zeroing write, until selectCS(1) replaces it; only the write on channel 1
\* is a whole transaction, closed by disableCS(1), after which no chip-select
\* is asserted.
C6_ClearTransactions ==
    op.name = "clear"
    => /\ Cardinality(Writes(trace)) = 3
       /\ \A i \in Writes(trace) :
             /\ Steps(trace)[i].channel = ClearTarget(trace[i].data)
             /\ i < Len(trace)
             /\ Steps(trace)[i + 1] = DelayStep(100)
             /\ WholeTransaction(trace, i) <=> ClearTarget(trace[i].data) = 1
       /\ CsStepsFrom(trace, 1) = << SelectStep(0), SelectStep(1), DeselectStep(1) >>
       /\ \A c \in Channels : ~cs[c]

\* a clear() has returned, its writes having reached both chips
C6_Witness ==
    /\ op.name = "clear"
    /\ Cardinality(Writes(trace)) = 3
    /\ \A i \in Writes(trace) : trace[i].ok
    /\ ad9834.control = 8704
    /\ gpio[2] = FALSE

----------------------------------------------------------------------------
(* C7: Bridge failures inside clear(), start(), stop() and the register    *)
(* writes.                                                                 *)

\* the Bridge calls of tr that failed
FailedCalls(tr) == {i \in 1 .. Len(tr) : tr[i].call # "usleep" /\ ~tr[i].ok}

\* the operation o run from the present state over a Bridge that does not fail
FailureFree(o) ==
    CASE o.name = "clear" -> clear(Entry({}, FALSE))
      [] o.name = "start" -> start(Entry({}, FALSE))
      [] o.name = "stop" -> stop(Entry({}, FALSE))
      [] o.name = "setAmplitude" -> setAmplitude(Entry({}, FALSE), o.args[1])
      [] o.name = "setFrequency" -> setFrequency(Entry({}, FALSE), o.args[1], o.args[2])

\* the same, the clock line having the level that the clock read of tr returned
FailureFreeAsRead(o, tr) ==
    IF o.name = "stop"
    THEN stop([Entry({}, FALSE) EXCEPT !.gpio[CMPEN] = tr[2].val])
    ELSE FailureFree(o)

\* one error counted and one message appended per failed call of tr
Recorded(tr, cnt, msgs) ==
    /\ cnt = Cardinality(FailedCalls(tr))
    /\ Len(msgs) = Cardinality(FailedCalls(tr))

\* a call or delay without its outcome (whether it failed, what it read)
CallOf(e) ==
    CASE e.call = "usleep" -> e
      [] e.call = "getGPIO" -> [e EXCEPT !.ok = TRUE, !.val = FALSE]
      [] OTHER -> [e EXCEPT !.ok = TRUE]

\* tr and the trace ref issue the same calls and delays, in the same order
SameCalls(tr, ref) ==
    /\ Len(tr) = Len(ref)
    /\ \A i \in 1 .. Len(tr) : CallOf(tr[i]) = CallOf(ref[i])

FaultyOperation(o) ==
    o.name \in {"clear", "start", "stop", "setAmplitude", "setFrequency"} /\ Accepted(o)

\* C7 as claimed: a Bridge failure in any step of clear(), start(), stop() or a
\* register write is only recorded (the error count grows, a message is
\* appended) and never aborts the operation: every later step is still issued,
\* in the same order as in a failure-free run, and nothing is retried
C7_Original ==
    [][ FaultyOperation(op')
        => /\ Recorded(trace', errcnt', errstr')
           /\ \A ref \in {FailureFree(op').trace} : SameCalls(trace', ref) ]_vars

\* C7, amended: a Bridge failure in any step of clear(), start(), stop() or a
\* register write is only recorded (one error counted and one message appended
\* per failed call) and never aborts the operation, and nothing is retried: the
\* steps issued are those of a failure-free run in which the clock read of
\* stop() returns the same value.  (After a failed clock read stop() refreshes
\* the clock, or not, by the value the read returned, which need not be the
\* level of the line.)  The calls of these operations depend on the state
\* they start from through that read only, so the run compared with may start
\* from the state the operation has left.
C7_FailuresOnlyRecorded ==
    FaultyOperation(op)
    => /\ Recorded(trace, errcnt, errstr)
       /\ \A ref \in {FailureFreeAsRead(op, trace).trace} : SameCalls(trace, ref)

\* a clear() has run to its last step although every call after the first failed
C7_Witness ==
    /\ op.name = "clear"
    /\ Len(trace) = 16
    /\ trace[1].ok
    /\ errcnt = 12
    /\ Len(errstr) = 12

-----------------------------------------------------------------------------
(* C8: chip-selects and the reset pin after an operation some of whose     *)
(* Bridge calls failed.                                                    *)

\* the calls of tr that write the reset pin, that select and that deselect
ResetWrites(tr) == {i \in 1 .. Len(tr) : tr[i].call = "setGPIO" /\ tr[i].pin = RST}
SelectCalls(tr) == {i \in 1 .. Len(tr) : tr[i].call = "selectCS"}
DeselectCalls(tr) == {i \in 1 .. Len(tr) : tr[i].call = "disableCS"}

LastOf(S) == CHOOSE i \in S : \A j \in S : j <= i

\* the last call of tr among those numbered in S took effect
LastTookEffect(tr, S) == S # {} /\ tr[LastOf(S)].ok

\* the level the reset pin is meant to hold when the operation o returns
IntendedReset(o) == o.name = "stop"

Released(sel) == \A c \in Channels : ~sel[c]

\* C8 as claimed: whichever Bridge calls of clear(), start() or stop() fail,
\* when the operation has returned no chip-select is asserted and the reset pin
\* holds the intended level: low after clear() and start(), high after stop()
C8_Original ==
    op.name \in {"clear", "start", "stop"}
    => /\ Released(cs)
       /\ gpio[RST] = IntendedReset(op)

\* C8, amended: when some Bridge calls of an operation fail (a failed call
\* having no effect on the hardware), after the operation returns
\*  - the reset pin holds the intended level (low after clear() and start(),
\*    high after stop()) if the last reset-pin write of the operation succeeded;
\*  - no chip-select is asserted if the operation issued chip-select calls
\*    (clear() and the register writes do) and its last selectCS and every
\*    disableCS succeeded;
\*  - an operation that issues no chip-select call (start(), stop(), a rejected
\*    write) leaves the chip-selects as it found them.
\* A failed last reset-pin write leaves the pin as the calls before it left it,
\* and a failed selectCS(1) or disableCS(1) can leave a chip-select asserted.
C8_ReleasedWhenLastCallsSucceed ==
    [][ /\ ( /\ op'.name \in {"clear", "start", "stop"}
             /\ LastTookEffect(trace', ResetWrites(trace')) )
           => gpio'[RST] = IntendedReset(op')
        /\ ( /\ LastTookEffect(trace', SelectCalls(trace'))
             /\ \A i \in DeselectCalls(trace') : trace'[i].ok )
           => Released(cs')
        /\ (SelectCalls(trace') \cup DeselectCalls(trace') = {}) => cs' = cs
      ]_vars

\* a clear() has returned with a failed call behind it, its chip-select calls
\* and its last reset-pin write having succeeded
C8_Witness ==
    /\ op.name = "clear"
    /\ FailedCalls(trace) # {}
    /\ LastTookEffect(trace, ResetWrites(trace))
    /\ LastTookEffect(trace, SelectCalls(trace))
    /\ \A i \in DeselectCalls(trace) : trace[i].ok
    /\ Released(cs)
    /\ ~gpio[RST]

-----------------------------------------------------------------------------
(* C9: over a Bridge whose reads return the level last written, each query *)
(* returns the value last given to its setter.                             *)

\* the lines driven with the inverse of the value given, and with the value
InvertedLines == {RST, SLP, CMPEN}
DirectLines == {FSEL, PSEL}

\* the line a query reads
QueriedLine(name) ==
    CASE name = "isWaveGenEnabled" -> RST
      [] name = "isDACEnabled" -> SLP
      [] name = "isClockEnabled" -> CMPEN
      [] name = "getFrequencySelection" -> FSEL
      [] name = "getPhaseSelection" -> PSEL

Queries ==
    {"isWaveGenEnabled", "isDACEnabled", "isClockEnabled",
     "getFrequencySelection", "getPhaseSelection"}

\* C9: with a Bridge whose GPIO reads return the last level written, after any
\* sequence of operations each query returns the value last given to its
\* setter: isWaveGenEnabled, isDACEnabled and isClockEnabled return v after
\* set...Enabled(v) while the pin (GPIO.2, GPIO.3, GPIO.6) holds the inverse
\* level; getFrequencySelection and getPhaseSelection return s after
\* selectFrequency(s) / selectPhase(s) while the pin (GPIO.4, GPIO.5) holds s
C9_QueriesMirrorSetters ==
    /\ \A line \in InvertedLines :
          lastSet[line] # <<>> => gpio[line] = ~lastSet[line][1]
    /\ \A line \in DirectLines :
          lastSet[line] # <<>> => gpio[line] = lastSet[line][1]
    /\ \A name \in Queries :
          (op.name = name /\ lastSet[QueriedLine(name)] # <<>>)
          => (result = lastSet[QueriedLine(name)] /\ errcnt = 0)

\* isClockEnabled() has returned false after setClockEnabled(false), and
\* getFrequencySelection() true after selectFrequency(true)
C9_Witness ==
    \/ /\ op.name = "isClockEnabled"
       /\ lastSet[CMPEN] = <<FALSE>>
       /\ result = <<FALSE>>
       /\ gpio[CMPEN]
       /\ lastSet[FSEL] = <<TRUE>>
       /\ gpio[FSEL]
    \/ /\ op.name = "getFrequencySelection"
       /\ lastSet[FSEL] = <<TRUE>>
       /\ result = <<TRUE>>
       /\ gpio[FSEL]
       /\ lastSet[CMPEN] = <<FALSE>>
       /\ gpio[CMPEN]

-----------------------------------------------------------------------------
(* C10: setFrequency() and setPhase() write the register slot they name    *)
(* and leave the control lines alone.                                      *)

\* the two 14-bit halves, low and high, that a frequency register holds for code
FrequencyWords(code) == <<code % 16384, (code \div 16384) % 16384>>

\* no call of tr drives a control line
NoPinWritten(tr) == \A i \in 1 .. Len(tr) : tr[i].call # "setGPIO"

\* of the registers of both chips, at most those named in slots differ
OnlySlots(slots, before, after, dacBefore, dacAfter) ==
    /\ dacAfter = dacBefore
    /\ \A r \in {"control", "freq0", "freq1", "phase0", "phase1"} \ slots :
          after[r] = before[r]

\* C10: setFrequency(fsel, f) and setPhase(psel, p) write only the register
\* slot named by their boolean argument and leave the active selection
\* unchanged: no call to them changes the FSEL pin (GPIO.4), the PSEL pin
\* (GPIO.5) or any other control line, whichever slot is written and whichever
\* slot is active
C10_WritesOnlyNamedSlot ==
    [][ /\ op'.name = "setFrequency"
           => /\ gpio' = gpio
              /\ NoPinWritten(trace')
              /\ OnlySlots({IF op'.args[1] = FSEL1 THEN "freq1" ELSE "freq0"},
                           ad9834, ad9834', ad5310, ad5310')
              /\ Accepted(op')
                 => ad9834'[IF op'.args[1] = FSEL1 THEN "freq1" ELSE "freq0"]
                       = FrequencyWords(frequencyCode(op'.args[2]))
        /\ op'.name = "setPhase"
           => /\ gpio' = gpio
              /\ NoPinWritten(trace')
              /\ OnlySlots({IF op'.args[1] = PSEL1 THEN "phase1" ELSE "phase0"},
                           ad9834, ad9834', ad5310, ad5310')
              /\ ad9834'[IF op'.args[1] = PSEL1 THEN "phase1" ELSE "phase0"]
                    = phaseCode(op'.args[2]) % PQUANTUM
      ]_vars

\* setFrequency(FSEL0, 40000) has loaded slot 0 while slot 1 is the active one
\* and still holds zero
C10_Witness ==
    /\ op.name = "setFrequency"
    /\ op.args = <<FSEL0, Float(FREQUENCY_MAX)>>
    /\ gpio[FSEL] = FSEL1
    /\ ad9834.freq0 = <<0, 8192>>
    /\ ad9834.freq1 = <<0, 0>>

-----------------------------------------------------------------------------
(* C11, C12: the frame of setFrequency().                                  *)

\* bits hi .. lo of the unsigned value
Bits(value, hi, lo) == (value \div Pow2(lo)) % Pow2(hi - lo + 1)

\* the frame written by the last operation, a register write
Frame == trace[2].data

AcceptedWrite(name) == op.name = name /\ Accepted(op) /\ Len(trace) = 4

FrequencyTag(fsel) == IF fsel = FSEL1 THEN 128 ELSE 64

\* C11 as claimed: for every accepted frequency, the 4-byte frame emitted by
\* setFrequency is, in transmission order, [tag|bits27..22, bits21..14,
\* tag|bits13..8, bits7..0] of the frequency code, the tag being 0x40 for
\* slot 0 and 0x80 for slot 1
C11_Original ==
    AcceptedWrite("setFrequency")
    => LET code == frequencyCode(op.args[2])
           tag == FrequencyTag(op.args[1])
       IN  Frame = << tag + Bits(code, 27, 22), Bits(code, 21, 14),
                      tag + Bits(code, 13, 8), Bits(code, 7, 0) >>

\* C11, amended: for every accepted frequency, the 4-byte frame emitted by
\* setFrequency is, in transmission order, [tag|bits13..8, bits7..0,
\* tag|bits27..22, bits21..14] of the 28-bit frequency code, where tag is 0x40
\* for slot 0 and 0x80 for slot 1
C11_FrequencyFrame ==
    AcceptedWrite("setFrequency")
    => LET code == frequencyCode(op.args[2])
           tag == FrequencyTag(op.args[1])
       IN  Frame = << tag + Bits(code, 13, 8), Bits(code, 7, 0),
                      tag + Bits(code, 27, 22), Bits(code, 21, 14) >>

\* setFrequency(FSEL1, 39999) has written the code 0x7fff2e8
C11_Witness ==
    /\ AcceptedWrite("setFrequency")
    /\ op.args = <<FSEL1, Float(39999)>>
    /\ Frame = <<178, 232, 159, 255>>

\* C12: for every accepted frequency, setFrequency delivers the 28-bit code as
\* two 16-bit transfers, the low 14-bit half first and the high 14-bit half
\* second, each carrying the same 2-bit register tag in its top two bits; the
\* register of the slot holds both halves afterwards
C12_LowHalfFirst ==
    AcceptedWrite("setFrequency")
    => LET code == frequencyCode(op.args[2])
           tag == IF op.args[1] = FSEL1 THEN 2 ELSE 1
           slot == IF op.args[1] = FSEL1 THEN ad9834.freq1 ELSE ad9834.freq0
       IN  /\ Len(Frame) = 4
           /\ Word(Frame, 1) = tag * 16384 + (code % 16384)
           /\ Word(Frame, 2) = tag * 16384 + (code \div 16384)
           /\ code < Pow2(28)
           /\ slot = <<code % 16384, code \div 16384>>

\* setFrequency(FSEL0, 40000 - 3/256), whose code has both halves non-zero,
\* has loaded FREQ0
C12_Witness ==
    /\ AcceptedWrite("setFrequency")
    /\ op.args = <<FSEL0, Dyadic(FREQUENCY_MAX * 256 - 3, 8)>>
    /\ ad9834.freq0[1] > 0
    /\ ad9834.freq0[2] > 0
    /\ Word(Frame, 1) \div 16384 = 1
    /\ Word(Frame, 2) \div 16384 = 1

-----------------------------------------------------------------------------
(* C13: the frame of setAmplitude().                                       *)

\* C13 as claimed: for every amplitude in [0, 8], the 2-byte frame emitted by
\* setAmplitude carries bits 9..6 of the 10-bit code in the low nibble of the
\* first byte (high nibble zero) and bits 5..0 in the top bits of the second
\* byte, and the 6 low bits of the 16-bit frame are zero
C13_Original ==
    AcceptedWrite("setAmplitude")
    => LET code == amplitudeCode(op.args[1])
       IN  /\ code < Pow2(10)
           /\ Frame = << Bits(code, 9, 6), 4 * Bits(code, 5, 0) >>
           /\ Frame[1] < 16
           /\ Bits(Word(Frame, 1), 5, 0) = 0

\* C13, amended: for every amplitude in [0, 8], the 2-byte frame emitted by
\* setAmplitude carries bits 9..6 of the 10-bit code in the low nibble of the
\* first byte (high nibble zero) and bits 5..0 in the top bits of the second
\* byte, and the 2 low bits of the 16-bit frame are zero: the frame is the
\* code shifted left by two bits, and the AD5310 latches it
C13_AmplitudeFrame ==
    AcceptedWrite("setAmplitude")
    => LET code == amplitudeCode(op.args[1])
       IN  /\ code < Pow2(10)
           /\ Frame = << Bits(code, 9, 6), 4 * Bits(code, 5, 0) >>
           /\ Frame[1] < 16
           /\ Bits(Word(Frame, 1), 1, 0) = 0
           /\ Word(Frame, 1) = 4 * code
           /\ ad5310 = 4 * code

\* setAmplitude(7.9375) has written a code with bits in both bytes
C13_Witness ==
    /\ AcceptedWrite("setAmplitude")
    /\ op.args = <<Dyadic(127, 4)>>
    /\ Frame[1] = 15
    /\ Frame[2] > 0
    /\ Frame[2] < 252

-----------------------------------------------------------------------------
(* C14: the code written and the value the static helper returns.          *)

\* the quotient and remainder of (q * d + r) * 2^j by d, r < d
RECURSIVE Doubled(_, _, _, _)
Doubled(q, r, d, j) ==
    IF j = 0 THEN [q |-> q, r |-> r]
    ELSE Doubled(2 * q + ((2 * r) \div d), (2 * r) % d, d, j - 1)

\* floor(frequency * 2^28 / 80000 + 1/2) in exact arithmetic: the code of the
\* representable frequency nearest to the value, a tie going up
NearestFrequencyCode(frequency) ==
    LET d == MCLK \div 128
        j == frequency.e + 21
        b == Doubled(frequency.m \div d, frequency.m % d, d, j)
    IN  IF j >= 0 THEN b.q + (IF 2 * b.r >= d THEN 1 ELSE 0)
        ELSE (frequency.m + d * Pow2(0 - j - 1)) \div (d * Pow2(0 - j))

\* floor(amplitude * 1023 / 8 + 1/2) in exact arithmetic; the product
\* m * 1023 is formed as 64 * H + L
NearestAmplitudeCode(amplitude) ==
    LET D == 3 - amplitude.e
        H == (amplitude.m \div 64) * AQUANTUM + (((amplitude.m % 64) * AQUANTUM) \div 64)
    IN  IF D <= 0 THEN amplitude.m * AQUANTUM * Pow2(0 - D)
        ELSE IF D < 7 THEN (2 * amplitude.m * AQUANTUM + Pow2(D)) \div Pow2(D + 1)
        ELSE (H + Pow2(D - 7)) \div Pow2(D - 6)

\* the codes that the frame of the last write carries
WrittenFrequencyCode == Bits(Word(Frame, 1), 13, 0) + 16384 * Bits(Word(Frame, 2), 13, 0)
WrittenAmplitudeCode == Bits(Word(Frame, 1), 11, 2)

\* code * span / quantum, as a float
Decoded(code, span, quantum) == FlDiv(FlMul(Float(code), span), quantum)

\* C14: for every frequency in [0, 40000] kHz and every amplitude in [0, 8]
\* Vpp, the integer code written by the setter is floor(value * quantum / span
\* + 0.5) and, decoded as code * span / quantum, equals the value returned by
\* expectedFrequency / expectedAmplitude, that is the nearest representable
\* value with ties rounded up; in particular amplitude 4.0 gives code 512
C14_NearestCode ==
    /\ AcceptedWrite("setFrequency")
       => /\ WrittenFrequencyCode = NearestFrequencyCode(op.args[2])
          /\ Decoded(WrittenFrequencyCode, MCLK, FQUANTUM) = expectedFrequency(op.args[2])
    /\ AcceptedWrite("setAmplitude")
       => /\ WrittenAmplitudeCode = NearestAmplitudeCode(op.args[1])
          /\ Decoded(WrittenAmplitudeCode, AMPLITUDE_MAX, AQUANTUM)
                = expectedAmplitude(op.args[1])
          /\ op.args[1] = Float(4) => WrittenAmplitudeCode = 512

-----------------------------------------------------------------------------
(* C15, C16: the phase code transmitted and expectedPhase().               *)

\* the 12-bit code that the frame of the last setPhase() carries
WrittenPhaseCode == Bits(Word(Frame, 1), 11, 0)

\* C15: for every phase p, the 12-bit code that setPhase actually transmits
\* (after merging into the frame), decoded as code * 360 / 4096, equals
\* expectedPhase(p), also for phases that fold to within half a quantum below
\* 360
C15_TransmittedIsExpected ==
    AcceptedWrite("setPhase")
    => Decoded(WrittenPhaseCode, 360, PQUANTUM) = expectedPhase(op.args[2])

\* phase + 360, the float sum
Plus360(phase) ==
    LET k == IF phase.e < 0 THEN 0 - phase.e ELSE 0
        sum == phase.m * Pow2(phase.e + k) + 360 * Pow2(k)
    IN  IF sum >= 0 THEN FlRound(sum, 0 - k, FALSE)
        ELSE Neg(FlRound(0 - sum, 0 - k, FALSE))

\* C16: for every phase p, positive or negative, expectedPhase(p) equals
\* expectedPhase(p + 360), and expectedPhase(p) lies in [0, 360): it is never
\* negative and never equal to 360
C16_PeriodicInRange ==
    op.name = "expectedPhase"
    => /\ result[1] = expectedPhase(Plus360(op.args[1]))
       /\ ~FlLess(result[1], Float(0))
       /\ FlLess(result[1], Float(360))

-----------------------------------------------------------------------------
(* C17: the codes and the expected values grow with the value.             *)

\* the samples of a kind within [min, max] that are not above the value
NotAbove(samples, value, min, max) ==
    {y \in samples : InRange(y, min, max) /\ ~FlLess(value, y)}

\* C17: encoding is monotonic non-decreasing: for any two in-range values
\* x <= y of the same kind, the frequency code written by setFrequency and the
\* amplitude code written by setAmplitude satisfy code(x) <= code(y), and
\* expectedAmplitude(x) <= expectedAmplitude(y), expectedFrequency(x) <=
\* expectedFrequency(y)
C17_Monotonic ==
    /\ AcceptedWrite("setFrequency")
       => \A x \in NotAbove(FrequencySamples, op.args[2], FREQUENCY_MIN, FREQUENCY_MAX) :
             frequencyCode(x) <= WrittenFrequencyCode
    /\ AcceptedWrite("setAmplitude")
       => \A x \in NotAbove(AmplitudeSamples, op.args[1], AMPLITUDE_MIN, AMPLITUDE_MAX) :
             amplitudeCode(x) <= WrittenAmplitudeCode
    /\ op.name = "expectedFrequency"
       => \A x \in NotAbove(FrequencySamples, op.args[1], FREQUENCY_MIN, FREQUENCY_MAX) :
             ~FlLess(result[1], expectedFrequency(x))
    /\ op.name = "expectedAmplitude"
       => \A x \in NotAbove(AmplitudeSamples, op.args[1], AMPLITUDE_MIN, AMPLITUDE_MAX) :
             ~FlLess(result[1], expectedAmplitude(x))

\* setFrequency(40000) has written 2^27, the code no other sample exceeds,
\* and two samples below it have codes that differ
C17_Witness ==
    /\ AcceptedWrite("setFrequency")
    /\ op.args[2] = Float(FREQUENCY_MAX)
    /\ WrittenFrequencyCode = Pow2(27)
    /\ frequencyCode(Float(1)) < frequencyCode(Float(2))
    /\ Cardinality(NotAbove(FrequencySamples, op.args[2], FREQUENCY_MIN, FREQUENCY_MAX)) > 20

-----------------------------------------------------------------------------
(* C18: the transfers of one operation.                                    *)

\* how many calls of the given kinds an operation issued
Calls(tr, kinds) == Cardinality({i \in 1 .. Len(tr) : tr[i].call \in kinds})

SpiTransfers(tr) == Calls(tr, {"spiWrite"})
GpioWrites(tr) == Calls(tr, {"setGPIO"})
GpioReads(tr) == Calls(tr, {"getGPIO"})
GpioTransfers(tr) == GpioWrites(tr) + GpioReads(tr)

LineSetters ==
    {"setWaveGenEnabled", "setDACEnabled", "setClockEnabled",
     "selectFrequency", "selectPhase"}

-----------------------------------------------------------------------------
(* C19, C20: the phase frame, and the tags of the frames.                  *)

PhaseTag(psel) == IF psel = PSEL1 THEN 14 ELSE 12

\* C19: for every phase p and slot psel, the frame emitted by setPhase is
\* exactly 2 bytes [tag|bits11..8, bits7..0] of the 12-bit phase code, with a
\* 4-bit register tag in the top four bits of the first byte that distinguishes
\* PHASE0 from PHASE1
C19_PhaseFrame ==
    AcceptedWrite("setPhase")
    => \A code \in {phaseCode(op.args[2]) % PQUANTUM} :
          /\ Len(Frame) = 2
          /\ Frame[1] = 16 * PhaseTag(op.args[1]) + Bits(code, 11, 8)
          /\ Frame[2] = Bits(code, 7, 0)
          /\ Bits(Frame[1], 7, 4) = PhaseTag(op.args[1])
          /\ PhaseTag(PSEL0) # PhaseTag(PSEL1)
          /\ ad9834[IF op.args[1] = PSEL1 THEN "phase1" ELSE "phase0"] = code

\* setPhase(PSEL1, 90) has sent 1110 0100 0000 0000
C19_Witness ==
    /\ AcceptedWrite("setPhase")
    /\ op.args = <<PSEL1, Float(90)>>
    /\ Frame = <<228, 0>>

\* C20: the value code never spills into the register-tag bits: for every
\* accepted input, the top two bits of bytes 0 and 2 of a setFrequency frame
\* are exactly the slot's tag (01 for FREQ0, 10 for FREQ1), including at the
\* maximum frequency 40000 kHz (code 2^27); and the top three bits of byte 0 of
\* a setPhase frame are exactly 110 (PHASE0) or 111 (PHASE1), including for
\* phases whose rounded code is 4096, which is transmitted as code 0
C20_TagsIntact ==
    /\ AcceptedWrite("setFrequency")
       => /\ Len(Frame) = 4
          /\ Bits(Frame[1], 7, 6) = (IF op.args[1] = FSEL1 THEN 2 ELSE 1)
          /\ Bits(Frame[3], 7, 6) = (IF op.args[1] = FSEL1 THEN 2 ELSE 1)
          /\ op.args[2] = Float(FREQUENCY_MAX)
             => frequencyCode(op.args[2]) = Pow2(27) /\ WrittenFrequencyCode = Pow2(27)
    /\ AcceptedWrite("setPhase")
       => /\ Bits(Frame[1], 7, 5) = (IF op.args[1] = PSEL1 THEN 7 ELSE 6)
          /\ phaseCode(op.args[2]) = PQUANTUM => WrittenPhaseCode = 0

\* a phase whose rounded code is 4096 has been written to PHASE1 as code 0
C20_Witness ==
    /\ AcceptedWrite("setPhase")
    /\ op.args[1] = PSEL1
    /\ phaseCode(op.args[2]) = PQUANTUM
    /\ Frame = <<224, 0>>

-----------------------------------------------------------------------------
(* C21: the chip-selects during and after an operation.                    *)

NoneAsserted == [c \in Channels |-> FALSE]

\* the chip-selects after the calls tr[1..i], starting from sel: a call that
\* succeeded acts as selectCS() / disableCS() of the Bridge do
RECURSIVE CsAfter(_, _, _)
CsAfter(sel, tr, i) ==
    IF i = 0 THEN sel
    ELSE LET before == CsAfter(sel, tr, i - 1)
         IN  IF tr[i].call = "selectCS" /\ tr[i].ok
             THEN [c \in Channels |-> c = tr[i].channel]
             ELSE IF tr[i].call = "disableCS" /\ tr[i].ok
             THEN [before EXCEPT ![tr[i].channel] = FALSE]
             ELSE before

AtMostOneAsserted(sel) == Cardinality({c \in Channels : sel[c]}) <= 1

\* C21: with a Bridge whose selectCS(n) asserts chip-select n and deasserts
\* every other one, in every reachable state (the intermediate steps of
\* clear() included) at most one of the two chip-selects is asserted, and in a
\* failure-free run no chip-select is asserted once any public operation has
\* returned
C21_OneChipSelect ==
    /\ Released(cs)
    /\ \A i \in 0 .. Len(trace) : AtMostOneAsserted(CsAfter(NoneAsserted, trace, i))
    /\ CsAfter(NoneAsserted, trace, Len(trace)) = cs

\* clear() has returned: chip-select 0 alone was asserted at some step,
\* chip-select 1 alone at a later one, and none is asserted now
C21_Witness ==
    /\ op.name = "clear"
    /\ Released(cs)
    /\ \E i \in 1 .. Len(trace) : \E j \in i + 1 .. Len(trace) :
          /\ CsAfter(NoneAsserted, trace, i) = [c \in Channels |-> c = 0]
          /\ CsAfter(NoneAsserted, trace, j) = [c \in Channels |-> c = 1]

-----------------------------------------------------------------------------
(* C22: the state a clear() ends in.                                       *)

\* the lines with the wave generator, the DAC and the clock enabled (GPIO.2,
\* GPIO.3 and GPIO.6 low) and FREQ0 and PHASE0 selected (GPIO.4, GPIO.5 low)
ClearedLines == [p \in Pins |-> FALSE]

\* the AD9834 with the control word of a sinusoidal waveform and its
\* frequency and phase registers zero
ClearedAd9834 == [Ad9834Reset EXCEPT !.control = Word(sineWaveFrame, 1)]

\* the reset pin is high when the call tr[i] is issued: the last reset-pin
\* write before it drove the pin high and took effect
ResetHighAt(tr, i) ==
    /\ {j \in ResetWrites(tr) : j < i} # {}
    /\ tr[LastOf({j \in ResetWrites(tr) : j < i})].value
    /\ tr[LastOf({j \in ResetWrites(tr) : j < i})].ok

ZeroingWrites(tr) ==
    {i \in 1 .. Len(tr) : tr[i].call = "spiWrite" /\ tr[i].data \in {clearAD9834, clearAD5310}}

\* the reset-pin writes that come after the pin was first driven high
WritesAfterReset(tr) ==
    {i \in ResetWrites(tr) : \E j \in ResetWrites(tr) : j < i /\ tr[j].value}

\* C22: from every reachable state, a failure-free clear() ends in the same
\* state: wave generator, DAC and clock enabled, frequency register 0 and
\* phase register 0 active, FREQ0, FREQ1, PHASE0, PHASE1 and the amplitude
\* register all zero, waveform sinusoidal (control word 0x22 0x00, the word
\* setSineWave writes); both register-zeroing writes happen while the reset
\* pin is held high, and the wave generator is re-enabled only as the very
\* last step
C22_ClearedState ==
    op.name = "clear"
    => /\ gpio = ClearedLines
       /\ ad9834 = ClearedAd9834
       /\ ad5310 = 0
       /\ setupAD9834 = sineWaveFrame
       /\ Released(cs)
       /\ Cardinality(ZeroingWrites(trace)) = 2
       /\ \A i \in ZeroingWrites(trace) : ResetHighAt(trace, i)
       /\ WritesAfterReset(trace) = {Len(trace)}
       /\ ~trace[Len(trace)].value

\* a clear() has returned: every line is low, the control word is 0x2200,
\* both zeroing writes were issued and FREQ0 was the selection last given
C22_Witness ==
    /\ op.name = "clear"
    /\ gpio = ClearedLines
    /\ ad9834.control = 8704
    /\ Cardinality(ZeroingWrites(trace)) = 2
    /\ lastSet[FSEL] = <<FSEL0>>

-----------------------------------------------------------------------------
(* C23: what stop() changes and what it leaves alone.                      *)

\* the lines stop() has no business with
UntouchedLines == {SLP, FSEL, PSEL}

\* C23: with a reliable Bridge, stop() leaves the clock/comparator in the
\* logical state it had before the call (enabled stays enabled after the
\* disable / 10 ms / re-enable refresh, disabled stays disabled), ends with the
\* wave generator disabled, and changes neither the DAC-enable line, the
\* frequency/phase selection lines, the chip-selects, nor any peripheral
\* register
C23_StopFrame ==
    [][op'.name = "stop"
       => /\ gpio'[CMPEN] = gpio[CMPEN]
          /\ ~gpio[CMPEN] => SubSeq(Steps(trace'), 3, Len(trace')) =
                                <<PinStep(CMPEN, TRUE), DelayStep(10000), PinStep(CMPEN, FALSE)>>
          /\ gpio[CMPEN] => Len(trace') = 2
          /\ gpio'[RST]
          /\ \A p \in UntouchedLines : gpio'[p] = gpio[p]
          /\ cs' = cs
          /\ ad9834' = ad9834
          /\ ad5310' = ad5310
          /\ \A i \in 1 .. Len(trace') :
                /\ trace'[i].call \notin {"spiWrite", "selectCS", "disableCS"}
                /\ trace'[i].call = "setGPIO" => trace'[i].pin \notin UntouchedLines
    ]_vars

\* a stop() has refreshed an enabled clock and returned, the DAC disabled and
\* the FREQ0 and amplitude registers loaded as they were before it
C23_Witness ==
    /\ op.name = "stop"
    /\ ReadAsEnabled(trace)
    /\ gpio[RST]
    /\ ~gpio[CMPEN]
    /\ gpio[SLP]
    /\ ad9834.freq0 # <<0, 0>>
    /\ ad5310 # 0

====
